---- MODULE Spec2Model ----
(***************************************************************************)
(* A model of the supervisor daemon of narwhal-cloud/systemctl             *)
(* (src/main.go): the process registry mapCommand, the supervision lock,   *)
(* Start / Stop / Status / Enable / Disable, the exit watcher goroutine    *)
(* that Start spawns, the reaper loop and the command protocol handler.    *)
(*                                                                         *)
(* Modelling decisions:                                                    *)
(*  - A message is a sequence of tokens; ":" and ".service" are tokens, so *)
(*    strings.Split and strings.ReplaceAll are computed, not assumed.      *)
(*  - A child is "alive", then a "zombie" (terminated, exit status not yet *)
(*    collected), then "reaped".  kill(pid, 0) answers for the first two.  *)
(*  - PIDs are not reused within a run.                                    *)
(*  - Time is abstracted: a sleep or a timeout may end at any moment at    *)
(*    which the code could observe it ended.                               *)
(***************************************************************************)
EXTENDS Integers, Sequences, FiniteSets, TLC

\* ------------------------------------------------------------------ bounds
\* MaxPid: children launched in a run.  MaxOps: control operations in a run
\* (the starts of Domain's walk and the connections accepted).
MaxPid == 7
MaxOps == 2

\* -------------------------------------------------------- program constants
\* The attempt budget handleConnection and Domain pass to Start.
InitialTry == 5
\* (*ProcessState).ExitCode() of a nil state, and of a child killed by a signal.
NoExitCode == -1

Services == {"a", "b"}

\* What a unit file can be: missing, without ExecStart, with an executable
\* that cannot be spawned, or launchable with one of the Restart settings.
RestartValues == {"always", "on-failure", ""}
Units ==
    {[kind |-> k, restart |-> ""] : k \in {"none", "noexec", "badexe"}}
        \cup {[kind |-> "ok", restart |-> r] : r \in RestartValues}

\* The unit files of a run: any for the first service; the second is missing
\* or launchable.  The enablement directory holds a link for the first or none.
UnitFiles ==
    {u \in [Services -> Units] :
        u["b"] \in {[kind |-> "none", restart |-> ""],
                    [kind |-> "ok", restart |-> "on-failure"]}}

\* The messages clients send (send() writes "op:service"): every operation
\* on the first service, a status query for the second, a message without a
\* colon and the reboot request.
Messages ==
    {<<op, ":", "a">> :
        op \in {"start", "stop", "status", "enable", "disable", "restart"}}
        \cup {<<"status", ":", "b", ".service">>,
              <<"garbage">>, <<"reboot", ":", "reboot">>}

VARIABLES
    daemon,      \* "boot" | "running" | "crashed" (panic) | "exited" (os.Exit
                 \* of the reboot request) | "shutdown" (the signal handler)
    socketFile,  \* the socket file exists at socketPath
    unit,        \* the unit files on disk: service -> Units
    enabled,     \* the symlinks of enablePath
    bootNext,    \* the entries Domain's walk has still to visit, in order
    mapCommand,  \* the registry: service -> entry
    procs,       \* every child launched so far, indexed by PID, with its watcher
    cur,         \* the holder of lock and the operation it is in
    conns,       \* accepted connections whose handler has not finished
    nOps,        \* control operations so far: boot-time starts and connections
    lastReply,   \* the connection the last step closed and the text written to it
    stopped,     \* ghost: a stop returned success and no start command came since
    started      \* ghost: a Start has been executed for the name

vars == <<daemon, socketFile, unit, enabled, bootNext, mapCommand, procs, cur, conns,
          nOps, lastReply, stopped, started>>

\* ------------------------------------------------------------ pure helpers
NoReply == "(closed without reply)"

\* lastReply when the last step closed no connection.
NoEvent == [id |-> 0, msg |-> <<>>, text |-> ""]

\* A registry entry: absent, or a *exec.Cmd whose Process is nil (pid 0) or set.
Absent == [present |-> FALSE, pid |-> 0]
Cmd(pid) == [present |-> TRUE, pid |-> pid]

Idle == [op |-> "none", ckind |-> "none", cid |-> 0, svc |-> "", try |-> 0,
         pid |-> 0]

\* strings.Split(msg, ":")
RECURSIVE Split(_)
Split(msg) ==
    IF \A i \in 1..Len(msg) : msg[i] # ":"
    THEN <<msg>>
    ELSE LET i == CHOOSE j \in 1..Len(msg) :
                      msg[j] = ":" /\ \A k \in 1..(j - 1) : msg[k] # ":"
         IN  <<SubSeq(msg, 1, i - 1)>> \o Split(SubSeq(msg, i + 1, Len(msg)))

\* strings.ReplaceAll(s, ".service", "")
IsNotSuffix(t) == t # ".service"
ReplaceAllService(s) == SelectSeq(s, IsNotSuffix)

\* The string a token sequence spells, for the one-token strings of Messages.
Text(s) == IF Len(s) = 1 THEN s[1] ELSE ""

Operation(msg) == Text(Split(msg)[1])
ServiceName(msg) == Text(ReplaceAllService(Split(msg)[2]))

\* find(service) # ""
find(service) == service \in Services /\ unit[service].kind # "none"

EntryIgnoringName(service) == mapCommand["a"]

\* mapCommand[service]
Entry(service) == IF service \in Services THEN mapCommand[service] ELSE Absent

\* isProcessRunning(pid): kill(pid, 0) succeeds for a live child and for a zombie.
isProcessRunning(pid) ==
    pid \in 1..Len(procs) /\ procs[pid].st \in {"alive", "zombie"}

StatusTrustsRegistry(service) ==
    IF ~find(service) THEN "no service found"
    ELSE IF ~Entry(service).present \/ Entry(service).pid = 0
         THEN "exited"
         ELSE "running"

\* Status(service): the text handleConnection writes back.
Status(service) ==
    IF ~find(service) THEN "no service found"
    ELSE IF ~Entry(service).present \/ Entry(service).pid = 0
            \/ ~isProcessRunning(Entry(service).pid)
         THEN "exited"
         ELSE "running"

NewProc(service, try, gen) ==
    [svc |-> service, st |-> "alive", sig |-> "none", code |-> 0,
     restart |-> unit[service].restart, try |-> try, gen |-> gen,
     wpc |-> "wait", cmdWait |-> FALSE]

\* Process.Signal(SIGTERM) / Signal(SIGKILL) on the PID: a live child gets the
\* signal pending (SIGKILL overrides); a finished one is left alone.
Signalled(pr, pid, sig) ==
    IF pr[pid].st = "alive" /\ pr[pid].sig # "kill"
    THEN [pr EXCEPT ![pid].sig = sig]
    ELSE pr

\* (*os.Process).Wait() returning in Stop's goroutine: a zombie is collected
\* there, and no (*Cmd).Wait gets the exit status any more.
Collected(pr, pid) ==
    IF pr[pid].st = "zombie"
    THEN [pr EXCEPT ![pid].st = "reaped", ![pid].cmdWait = FALSE]
    ELSE pr

\* (*Cmd).Wait() returning in Start: a zombie is collected there and the
\* status is stored in command.ProcessState.
CmdCollected(pr, pid) ==
    IF pr[pid].st = "zombie" THEN [pr EXCEPT ![pid].st = "reaped"] ELSE pr

\* filepath.Walk visits the entries of enablePath in lexical order.
WalkOrder(links) ==
    LET IsLink(s) == s \in links IN SelectSeq(<<"a", "b">>, IsLink)

TypeOK ==
    /\ daemon \in {"boot", "running", "crashed", "exited", "shutdown"}
    /\ socketFile \in BOOLEAN
    /\ unit \in [Services -> Units]
    /\ enabled \subseteq Services
    /\ nOps \in 0..MaxOps
    /\ Len(procs) <= MaxPid
    /\ \A s \in Services : mapCommand[s].pid \in 0..Len(procs)

Init ==
    /\ daemon = "boot"
    /\ socketFile = FALSE
    /\ unit \in UnitFiles
    /\ enabled \in SUBSET {"a"}
    /\ bootNext = WalkOrder(enabled)
    /\ mapCommand = [s \in Services |-> Absent]
    /\ procs = <<>>
    /\ cur = Idle
    /\ conns = {}
    /\ nOps = Cardinality(enabled)
    /\ lastReply = NoEvent
    /\ stopped = [s \in Services |-> FALSE]
    /\ started = [s \in Services |-> FALSE]

\* ------------------------------------------------- returning to the caller
Alive == daemon \in {"boot", "running"}

\* handleConnection writes the text and closes the connection.
Reply(c, text) ==
    /\ conns' = conns \ {c}
    /\ lastReply' = [id |-> c.id, msg |-> c.msg, text |-> text]

\* Start returns to whoever called it: a connection handler (which writes the
\* reply), the watcher goroutine (which logs and ends) or Domain's walk.
Returned(ckind, cid, text) ==
    /\ IF ckind = "conn"
       THEN \E c \in conns : c.id = cid /\ Reply(c, text)
       ELSE conns' = conns /\ lastReply' = NoEvent
    /\ bootNext' = IF ckind = "boot" THEN Tail(bootNext) ELSE bootNext

\* The watcher goroutine's position while it is inside its call of Start.
CallerAt(pr, ckind, cid, at) ==
    IF ckind = "watch" THEN [pr EXCEPT ![cid].wpc = at] ELSE pr

\* process.Wait() of Start is (*Cmd).Wait: when the watcher of that command is
\* still inside its own Wait and the child is not collected yet, both write
\* command.ProcessState without synchronisation.
CmdWait(pr, pid) ==
    IF pr[pid].wpc = "wait" /\ pr[pid].st # "reaped"
    THEN [pr EXCEPT ![pid].cmdWait = TRUE]
    ELSE pr

\* ---------------------------------------------------------------- Start
\* Lines 367-438: ExecStart, the new command, its registration, the launch
\* and the watcher goroutine.  pr is procs after the old process was handled.
StartLaunch(ckind, cid, service, try, pr) ==
    LET gen == IF ckind = "watch" THEN pr[cid].gen + 1 ELSE 0
        back == CallerAt(pr, ckind, cid, "done")
    IN  /\ cur' = Idle
        /\ CASE unit[service].kind = "noexec" ->
                  /\ mapCommand' = mapCommand
                  /\ procs' = back
                  /\ Returned(ckind, cid, "ExecStart not found")
             [] unit[service].kind = "badexe" ->
                  /\ mapCommand' = [mapCommand EXCEPT ![service] = Cmd(0)]
                  /\ procs' = back
                  /\ Returned(ckind, cid, "exec: executable not found")
             [] OTHER ->
                  /\ mapCommand' = [mapCommand EXCEPT ![service] = Cmd(Len(pr) + 1)]
                  /\ procs' = Append(back, NewProc(service, try, gen))
                  /\ Returned(ckind, cid, "success")

\* Start(service, try), lines 336-365: the lock, find, the unit file, and the
\* termination of the process already registered for the name.
Start(ckind, cid, service, try) ==
    /\ cur = Idle
    /\ find(service) /\ unit[service].kind = "ok" => Len(procs) < MaxPid
    /\ started' = IF service \in Services
                  THEN [started EXCEPT ![service] = TRUE] ELSE started
    /\ IF ~find(service)
       THEN /\ procs' = CallerAt(procs, ckind, cid, "done")
            /\ Returned(ckind, cid, "no service found")
            /\ UNCHANGED <<mapCommand, cur>>
       ELSE LET e == mapCommand[service] IN
            IF e.present /\ e.pid # 0
            THEN LET pr == CmdWait(Signalled(procs, e.pid, "term"), e.pid) IN
                 IF pr[e.pid].st = "alive"
                 THEN /\ cur' = [op |-> "start", ckind |-> ckind, cid |-> cid,
                                 svc |-> service, try |-> try, pid |-> e.pid]
                      /\ procs' = CallerAt(pr, ckind, cid, "start")
                      /\ UNCHANGED <<mapCommand, conns, bootNext>>
                      /\ lastReply' = NoEvent
                 ELSE StartLaunch(ckind, cid, service, try, CmdCollected(pr, e.pid))
            ELSE StartLaunch(ckind, cid, service, try, procs)

\* process.Wait() at line 364 returns once the old process has terminated.
StartWaitDone ==
    /\ Alive
    /\ cur.op = "start"
    /\ procs[cur.pid].st # "alive"
    /\ StartLaunch(cur.ckind, cur.cid, cur.svc, cur.try,
                   CmdCollected(procs, cur.pid))
    /\ UNCHANGED <<daemon, unit, socketFile, enabled, nOps, stopped, started>>

\* ----------------------------------------------------------------- Stop
StopReturnKeepsEntry(c, service, pr) ==
    /\ procs' = pr
    /\ mapCommand' = mapCommand
    /\ stopped' = [stopped EXCEPT ![service] = TRUE]
    /\ cur' = Idle
    /\ Reply(c, "success")

\* Lines 464-479 once the waiting goroutine reported: the entry is removed.
StopReturn(c, service, pr) ==
    /\ procs' = pr
    /\ mapCommand' = [mapCommand EXCEPT ![service] = Absent]
    /\ stopped' = [stopped EXCEPT ![service] = TRUE]
    /\ cur' = Idle
    /\ Reply(c, "success")

StopSignalKill == "kill"

\* Line 452: the signal Stop sends first.
StopSignal == "term"

\* Stop(service), lines 443-462: the lock, the lookup, SIGTERM and the
\* goroutine that waits for the child.
Stop(c, service) ==
    /\ cur = Idle
    /\ LET e == Entry(service) IN
       IF ~e.present
       THEN /\ Reply(c, "service is not run")
            /\ UNCHANGED <<daemon, mapCommand, procs, cur, stopped>>
       ELSE IF e.pid = 0
       THEN \* command.Process is nil: Signal dereferences it and panics
            /\ daemon' = "crashed"
            /\ UNCHANGED <<mapCommand, procs, cur, stopped, conns>>
            /\ lastReply' = NoEvent
       ELSE LET pr == Signalled(procs, e.pid, StopSignal) IN
            /\ UNCHANGED daemon
            /\ IF pr[e.pid].st = "alive"
               THEN /\ cur' = [op |-> "stop", ckind |-> "conn", cid |-> c.id,
                               svc |-> service, try |-> 0, pid |-> e.pid]
                    /\ procs' = pr
                    /\ UNCHANGED <<mapCommand, stopped, conns>>
                    /\ lastReply' = NoEvent
               ELSE StopReturn(c, service, Collected(pr, e.pid))

\* case err = <-done: the child's exit was observed within the grace period.
StopDone ==
    /\ Alive
    /\ cur.op = "stop"
    /\ procs[cur.pid].st # "alive"
    /\ \E c \in conns :
          c.id = cur.cid /\ StopReturn(c, cur.svc, Collected(procs, cur.pid))
    /\ UNCHANGED <<daemon, unit, socketFile, enabled, bootNext, nOps, started>>

\* case <-time.After(5 * time.Second): SIGKILL, then the entry is removed.
StopTimeout ==
    /\ Alive
    /\ cur.op = "stop"
    /\ procs[cur.pid].st = "alive"
    /\ \E c \in conns :
          c.id = cur.cid /\ StopReturn(c, cur.svc, Signalled(procs, cur.pid, "kill"))
    /\ UNCHANGED <<daemon, unit, socketFile, enabled, bootNext, nOps, started>>

\* ------------------------------------------------------ the exit watcher
\* What command.ProcessState.ExitCode() gives the watcher: the child's code
\* when the watcher's own wait collected it, NoExitCode when the reaper or
\* Stop did (ProcessState stays nil), either of the two when Start's Cmd.Wait
\* on the same command wrote ProcessState concurrently.
WatcherCodes(p) ==
    IF p.cmdWait THEN {p.code, NoExitCode}
    ELSE IF p.st = "zombie" THEN {p.code} ELSE {NoExitCode}

\* Lines 418-426: TRUE when the watcher goes on to the delay and the restart.
RestartDecision(restart, exitCode, entry) ==
    IF restart = "always" /\ ~entry.present THEN FALSE
    ELSE IF restart = "on-failure" /\ exitCode = 0 THEN FALSE
    ELSE TRUE

\* Lines 414-426: command.Wait() returns, the exit code, the policy.
WatcherExit(pid) ==
    /\ Alive
    /\ procs[pid].wpc = "wait"
    /\ procs[pid].st # "alive"
    /\ \E wc \in WatcherCodes(procs[pid]) :
          procs' = [procs EXCEPT
                      ![pid].st = "reaped",
                      ![pid].code = 0,
                      ![pid].cmdWait = FALSE,
                      ![pid].wpc =
                          IF RestartDecision(procs[pid].restart, wc,
                                             mapCommand[procs[pid].svc])
                          THEN "sleep" ELSE "done"]
    /\ UNCHANGED <<daemon, unit, socketFile, enabled, bootNext, mapCommand, cur, conns,
                   nOps, stopped, started>>
    /\ lastReply' = NoEvent

\* Lines 428-435: after the delay, Start(service, try-1) when try > 0.
RestartBudget(try) == try > 0

NextTrySame(try) == try

NextTry(try) == try - 1

WatcherRestart(pid) ==
    /\ Alive
    /\ procs[pid].wpc = "sleep"
    /\ IF RestartBudget(procs[pid].try)
       THEN Start("watch", pid, procs[pid].svc, NextTry(procs[pid].try))
       ELSE /\ procs' = [procs EXCEPT ![pid].wpc = "done"]
            /\ UNCHANGED <<mapCommand, cur, conns, bootNext, started>>
            /\ lastReply' = NoEvent
    /\ UNCHANGED <<daemon, unit, socketFile, enabled, nOps, stopped>>

\* ------------------------------------------------- children and the reaper
\* The exit status of a child: its own code, or NoExitCode when a signal
\* killed it.  A child may handle SIGTERM and exit with a code of its own,
\* or ignore it (it then simply does not take this step).
ExitCodes(sig) ==
    IF sig = "kill" THEN {NoExitCode}
    ELSE IF sig = "term" THEN {NoExitCode, 0}
    ELSE {0, 1}

ChildExit(pid) ==
    /\ Alive
    /\ procs[pid].st = "alive"
    /\ \E code \in ExitCodes(procs[pid].sig) :
          procs' = [procs EXCEPT ![pid].st = "zombie", ![pid].sig = "none",
                                 ![pid].code = code]
    /\ UNCHANGED <<daemon, unit, socketFile, enabled, bootNext, mapCommand, cur, conns,
                   nOps, stopped, started>>
    /\ lastReply' = NoEvent

\* reapZombies: Wait4(-1, WNOHANG) collects any terminated child.
reapZombies(pid) ==
    /\ Alive
    /\ procs[pid].st = "zombie"
    /\ procs' = [procs EXCEPT ![pid].st = "reaped", ![pid].cmdWait = FALSE]
    /\ UNCHANGED <<daemon, unit, socketFile, enabled, bootNext, mapCommand, cur, conns,
                   nOps, stopped, started>>
    /\ lastReply' = NoEvent
\* ----------------------------------------------------------------- Domain
\* The walk of enablePath: Start(name, 5) for every enabled service.
BootStart ==
    /\ daemon = "boot"
    /\ bootNext # <<>>
    /\ Start("boot", 0, Head(bootNext), InitialTry)
    /\ UNCHANGED <<daemon, unit, socketFile, enabled, nOps, stopped>>

\* net.Listen: from here on connections are accepted.
Listen ==
    /\ daemon = "boot"
    /\ bootNext = <<>>
    /\ cur.ckind # "boot"
    /\ daemon' = "running"
    /\ socketFile' = TRUE
    /\ UNCHANGED <<unit, enabled, bootNext, mapCommand, procs, cur, conns,
                   nOps, stopped, started>>
    /\ lastReply' = NoEvent

ShutdownKillsChildren ==
    /\ daemon = "running"
    /\ daemon' = "shutdown"
    /\ socketFile' = FALSE
    /\ procs' = [pid \in DOMAIN procs |->
                    IF procs[pid].st = "alive" /\ procs[pid].sig = "none"
                    THEN [procs[pid] EXCEPT !.sig = "term"]
                    ELSE procs[pid]]
    /\ UNCHANGED <<unit, enabled, bootNext, mapCommand, cur, conns,
                   nOps, stopped, started>>
    /\ lastReply' = NoEvent

\* Lines 235-242: on os.Interrupt or SIGTERM the handler goroutine closes the
\* listener, removes the socket file and calls os.Exit(0).  The handler is
\* installed once the daemon listens.
Shutdown ==
    /\ daemon = "running"
    /\ daemon' = "shutdown"
    /\ socketFile' = FALSE
    /\ UNCHANGED <<unit, enabled, bootNext, mapCommand, procs, cur, conns,
                   nOps, stopped, started>>
    /\ lastReply' = NoEvent

\* listener.Accept and go handleConnection(conn), with the message read.
Accept(msg) ==
    /\ daemon = "running"
    /\ nOps < MaxOps
    /\ nOps' = nOps + 1
    /\ conns' = conns \cup {[id |-> nOps + 1, msg |-> msg]}
    /\ UNCHANGED <<daemon, unit, socketFile, enabled, bootNext, mapCommand, procs, cur,
                   stopped, started>>
    /\ lastReply' = NoEvent

\* ------------------------------------------------------- handleConnection
KnownOperations == {"enable", "disable", "start", "stop", "status", "reboot"}

IsMalformedOffByOne(msg) == Len(Split(msg)) < 1

\* Lines 266-269: a message without a colon is dropped, nothing is written.
IsMalformed(msg) == Len(Split(msg)) < 2

HandleMalformed(c) ==
    /\ daemon = "running"
    /\ IsMalformed(c.msg)
    /\ Reply(c, NoReply)
    /\ UNCHANGED <<daemon, unit, socketFile, enabled, bootNext, mapCommand, procs, cur,
                   nOps, stopped, started>>

\* Lines 271-303 for an operation no case matches: err is still nil.
UnknownReply == "success"

HandleUnknown(c) ==
    /\ daemon = "running"
    /\ ~IsMalformed(c.msg)
    /\ Operation(c.msg) \notin KnownOperations
    /\ Reply(c, UnknownReply)
    /\ UNCHANGED <<daemon, unit, socketFile, enabled, bootNext, mapCommand, procs, cur,
                   nOps, stopped, started>>

\* case "reboot": os.Exit(0)
HandleReboot(c) ==
    /\ daemon = "running"
    /\ ~IsMalformed(c.msg)
    /\ Operation(c.msg) = "reboot"
    /\ daemon' = "exited"
    /\ UNCHANGED <<unit, socketFile, enabled, bootNext, mapCommand, procs, cur, conns,
                   nOps, stopped, started>>
    /\ lastReply' = NoEvent

\* Enable(service), lines 308-320.
Enable(service) ==
    IF ~find(service) THEN [links |-> enabled, text |-> "no service found"]
    ELSE IF service \in enabled
         THEN [links |-> enabled, text |-> "symlink: file exists"]
         ELSE [links |-> enabled \cup {service}, text |-> "success"]

HandleEnable(c) ==
    /\ daemon = "running"
    /\ ~IsMalformed(c.msg)
    /\ Operation(c.msg) = "enable"
    /\ cur = Idle
    /\ enabled' = Enable(ServiceName(c.msg)).links
    /\ Reply(c, Enable(ServiceName(c.msg)).text)
    /\ UNCHANGED <<daemon, unit, socketFile, bootNext, mapCommand, procs, cur, nOps,
                   stopped, started>>

DisableKeepsLink(service) ==
    IF service \notin enabled
    THEN [links |-> enabled, text |-> "remove: no such file or directory"]
    ELSE [links |-> enabled, text |-> "success"]

\* Disable(service), lines 324-332.
Disable(service) ==
    IF service \notin enabled
    THEN [links |-> enabled, text |-> "remove: no such file or directory"]
    ELSE [links |-> enabled \ {service}, text |-> "success"]

HandleDisable(c) ==
    /\ daemon = "running"
    /\ ~IsMalformed(c.msg)
    /\ Operation(c.msg) = "disable"
    /\ cur = Idle
    /\ enabled' = Disable(ServiceName(c.msg)).links
    /\ Reply(c, Disable(ServiceName(c.msg)).text)
    /\ UNCHANGED <<daemon, unit, socketFile, bootNext, mapCommand, procs, cur, nOps,
                   stopped, started>>

\* case "start": Start(split[1], 5)
HandleStart(c) ==
    /\ daemon = "running"
    /\ ~IsMalformed(c.msg)
    /\ Operation(c.msg) = "start"
    /\ Start("conn", c.id, ServiceName(c.msg), InitialTry)
    /\ stopped' = IF ServiceName(c.msg) \in Services
                  THEN [stopped EXCEPT ![ServiceName(c.msg)] = FALSE]
                  ELSE stopped
    /\ UNCHANGED <<daemon, unit, socketFile, enabled, nOps>>

\* case "stop": Stop(split[1])
HandleStop(c) ==
    /\ daemon = "running"
    /\ ~IsMalformed(c.msg)
    /\ Operation(c.msg) = "stop"
    /\ Stop(c, ServiceName(c.msg))
    /\ UNCHANGED <<unit, socketFile, enabled, bootNext, nOps, started>>

\* case "status": the state string is written instead of "success".
HandleStatus(c) ==
    /\ daemon = "running"
    /\ ~IsMalformed(c.msg)
    /\ Operation(c.msg) = "status"
    /\ cur = Idle
    /\ Reply(c, Status(ServiceName(c.msg)))
    /\ UNCHANGED <<daemon, unit, socketFile, enabled, bootNext, mapCommand, procs, cur,
                   nOps, stopped, started>>

handleConnection(c) ==
    \/ HandleMalformed(c)
    \/ HandleUnknown(c)
    \/ HandleReboot(c)
    \/ HandleEnable(c)
    \/ HandleDisable(c)
    \/ HandleStart(c)
    \/ HandleStop(c)
    \/ HandleStatus(c)

Next ==
    \/ BootStart
    \/ Listen
    \/ Shutdown
    \/ \E msg \in Messages : Accept(msg)
    \/ \E c \in conns : handleConnection(c)
    \/ StartWaitDone
    \/ StopDone
    \/ StopTimeout
    \/ \E pid \in 1..Len(procs) : WatcherExit(pid)
    \/ \E pid \in 1..Len(procs) : WatcherRestart(pid)
    \/ \E pid \in 1..Len(procs) : ChildExit(pid)
    \/ \E pid \in 1..Len(procs) : reapZombies(pid)

Spec == Init /\ [][Next]_vars

\* Runs in which the first service is launchable and enabled, the second has
\* no unit file, and the start of Domain's walk is not counted against MaxOps:
\* the boot-time start is followed by up to MaxOps client connections.
InitBootUncounted ==
    /\ daemon = "boot"
    /\ socketFile = FALSE
    /\ unit \in {u \in UnitFiles : u["a"].kind = "ok" /\ u["b"].kind = "none"}
    /\ enabled = {"a"}
    /\ bootNext = WalkOrder(enabled)
    /\ mapCommand = [s \in Services |-> Absent]
    /\ procs = <<>>
    /\ cur = Idle
    /\ conns = {}
    /\ nOps = 0
    /\ lastReply = NoEvent
    /\ stopped = [s \in Services |-> FALSE]
    /\ started = [s \in Services |-> FALSE]

SpecBootUncounted == InitBootUncounted /\ [][Next]_vars
\* ================================================================ claims
Pids == 1..Len(procs)
Replied == lastReply.id # 0
RepliedOp == IF Replied THEN Operation(lastReply.msg) ELSE ""
HasColon(msg) == \E i \in 1..Len(msg) : msg[i] = ":"
Registered(pid) == mapCommand[procs[pid].svc] = Cmd(pid)

\* C1: for a service whose unit sets no Restart option, once a stop has
\* returned success and no start command came after it, status is "exited":
\* the daemon does not launch the service again on its own.
C1_StoppedStaysExited ==
    \A s \in Services :
        (unit[s].kind = "ok" /\ unit[s].restart = "" /\ stopped[s])
            => Status(s) = "exited"

\* C2: under policy "on-failure" a child that terminated with exit code 0 is
\* not restarted by its watcher, whoever collected the exit status.
C2_CleanExitNotRestarted ==
    [][\A pid \in Pids :
          (procs[pid].restart = "on-failure" /\ procs[pid].wpc = "wait"
              /\ procs[pid].st # "alive" /\ procs[pid].code = 0)
            => procs'[pid].wpc # "sleep"]_vars

\* C3: an "always" service that was explicitly stopped is not relaunched:
\* after the stop returned, the registry stays without an entry for it until
\* the next start command.
C3_StoppedAlwaysStaysDown ==
    \A s \in Services :
        (unit[s].restart = "always" /\ stopped[s])
            => ~mapCommand[s].present

\* C4: every automatic restart passes the budget decremented by one, a watcher
\* with budget 0 does not restart, so a chain that began with budget 5 holds
\* at most 5 relaunches; once the budget is used up status is "exited".
C4_RestartsBounded ==
    \A pid \in Pids :
        /\ procs[pid].try \in 0..InitialTry
        /\ procs[pid].gen = InitialTry - procs[pid].try
        /\ (procs[pid].try = 0 /\ procs[pid].wpc \in {"sleep", "done"}
                /\ Registered(pid))
             => Status(procs[pid].svc) = "exited"

C4_Witness ==
    \E pid \in Pids :
        /\ procs[pid].restart = "on-failure"
        /\ procs[pid].gen = InitialTry
        /\ procs[pid].wpc = "done"
        /\ Registered(pid)
        /\ Len(procs) < MaxPid
        /\ cur = Idle

\* C5: when stop returns for a name that had an entry, the registry holds no
\* entry for the name, on the graceful, the forced-kill and the
\* already-exited path.
C5_StopClearsEntry ==
    (RepliedOp = "stop" /\ lastReply.text = "success")
        => ~Entry(ServiceName(lastReply.msg)).present

\* The forced-kill path: the reply was written while the child still lives.
C5_Witness ==
    /\ RepliedOp = "stop"
    /\ lastReply.text = "success"
    /\ \E pid \in Pids : procs[pid].st = "alive" /\ procs[pid].sig = "kill"

C7_NeverStartedNeverRunning ==
    /\ \A s \in Services : ~started[s] => ~mapCommand[s].present
    /\ (RepliedOp = "status" /\ ~started[ServiceName(lastReply.msg)])
          => lastReply.text =
                 IF unit[ServiceName(lastReply.msg)].kind = "none"
                 THEN "no service found" ELSE "exited"

\* A status query for the name never started, answered while the other
\* service is running.
C7_Witness ==
    /\ RepliedOp = "status"
    /\ ~started[ServiceName(lastReply.msg)]
    /\ lastReply.text = "exited"
    /\ \E pid \in Pids : procs[pid].st = "alive" /\ Registered(pid)

\* C8: no failure of a control operation crashes the daemon.
C8_DaemonNeverCrashes == daemon # "crashed"

\* C9: a message whose operation is none of the known ones is closed with no
\* reply written.
C9_UnknownOperationNoReply ==
    (Replied /\ HasColon(lastReply.msg) /\ RepliedOp \notin KnownOperations)
        => lastReply.text = NoReply

\* C10: a message without a colon is closed with nothing written, and its
\* handling changes neither the registry, the processes, the lock, the
\* enablement store nor any other connection.
C10_MalformedDropped ==
    [][\A c \in conns :
          (~HasColon(c.msg) /\ c \notin conns')
            => /\ lastReply' = [id |-> c.id, msg |-> c.msg, text |-> NoReply]
               /\ conns' = conns \ {c}
               /\ UNCHANGED <<daemon, mapCommand, procs, cur, enabled, unit>>]_vars

C10_Witness ==
    /\ Replied
    /\ ~HasColon(lastReply.msg)
    /\ lastReply.text = NoReply
    /\ \E pid \in Pids : procs[pid].st = "alive" /\ Registered(pid)
\* C11: the reply "success" to a restart request for a resolvable service is
\* only written when a process for that service has been launched: the name
\* was started and the registry holds a launched process for it.
C11_RestartLaunches ==
    (RepliedOp = "restart" /\ lastReply.text = "success"
        /\ unit[ServiceName(lastReply.msg)].kind # "none")
        => LET s == ServiceName(lastReply.msg) IN
           /\ started[s]
           /\ mapCommand[s].present
           /\ mapCommand[s].pid # 0

\* C12: enable of a resolvable service without a link succeeds and creates the
\* link; enable of an unresolvable service fails and creates nothing; disable
\* of a linked service succeeds and removes the link; disable without a link
\* fails and leaves the enablement store unchanged.
C12_EnableDisableRoundTrip ==
    [][\A c \in conns :
          (HasColon(c.msg) /\ c \notin conns')
            => LET s == ServiceName(c.msg)
                   op == Operation(c.msg)
                   ok == lastReply'.text = "success" IN
               /\ (op = "enable" /\ unit[s].kind # "none" /\ s \notin enabled)
                     => ok /\ enabled' = enabled \cup {s}
               /\ (op = "enable" /\ unit[s].kind = "none")
                     => ~ok /\ lastReply'.text # NoReply /\ enabled' = enabled
               /\ (op = "disable" /\ s \in enabled)
                     => ok /\ enabled' = enabled \ {s}
               /\ (op = "disable" /\ s \notin enabled)
                     => ~ok /\ lastReply'.text # NoReply /\ enabled' = enabled]_vars

\* The round trip: nothing was enabled at boot, the second connection's
\* disable succeeded, so the first connection's enable had created the link,
\* and no link is left.
C12_Witness ==
    /\ RepliedOp = "disable"
    /\ lastReply.text = "success"
    /\ lastReply.id = 2
    /\ \A s \in Services : ~started[s]
    /\ enabled = {}

\* C13: every read of the registry is made while no other task holds the
\* supervision lock: the watcher's check of the entry (made under policy
\* "always") never happens while a start or a stop is inside its critical
\* section.
C13_RegistryReadsUnderLock ==
    [][\A pid \in Pids :
          (procs[pid].restart = "always" /\ procs[pid].wpc = "wait"
              /\ procs'[pid].wpc # "wait")
            => cur = Idle]_vars
\* A reaped process whose watcher has still to decide, or has decided to
\* restart and has budget left.
WillRestart(pid) ==
    \/ procs[pid].wpc \in {"wait", "start"}
    \/ procs[pid].wpc = "sleep" /\ procs[pid].try > 0

\* C14: when no control operation is in progress, every entry of the registry
\* maps to a launched process that is running or terminated but not reaped
\* yet; there is no entry for a failed launch nor for a reaped process that
\* will not be restarted.
C14_RegistryHoldsLiveProcesses ==
    cur = Idle =>
        \A s \in Services :
            mapCommand[s].present =>
                /\ mapCommand[s].pid # 0
                /\ \/ procs[mapCommand[s].pid].st \in {"alive", "zombie"}
                   \/ WillRestart(mapCommand[s].pid)

\* C15: stop sends the graceful signal first; the kill signal is sent only by
\* a stop whose child is still alive after the grace period, to a child that
\* already got the graceful signal; and a stop of a registered name whose
\* signal cannot be delivered still completes with success and no entry.
C15_SignalEscalation ==
    [][/\ (cur.op # "stop" /\ cur'.op = "stop")
            => procs'[cur'.pid].sig = "term"
       /\ \A pid \in Pids :
             (procs[pid].sig # "kill" /\ procs'[pid].sig = "kill")
               => /\ procs[pid].sig = "term"
                  /\ procs[pid].st = "alive"
                  /\ cur.op = "stop" /\ cur.pid = pid
       /\ \A c \in conns :
             (HasColon(c.msg) /\ Operation(c.msg) = "stop" /\ c \notin conns'
                 /\ mapCommand[ServiceName(c.msg)].present)
               => /\ lastReply'.text = "success"
                  /\ ~mapCommand'[ServiceName(c.msg)].present]_vars

\* The escalation happened: the stop returned with the kill signal pending on
\* a child that is still alive.
C15_Witness ==
    /\ cur = Idle
    /\ RepliedOp = "stop"
    /\ \E pid \in Pids :
          /\ procs[pid].st = "alive"
          /\ procs[pid].sig = "kill"
          /\ ~mapCommand[procs[pid].svc].present

\* C16: the restart decision a watcher takes for an exit is the one the
\* child's exit code and the policy give, whoever collected the child: the
\* watcher's own wait, the reaper, or a wait of Start or Stop.
C16_ReaperRaceHarmless ==
    [][\A pid \in Pids :
          (procs[pid].wpc = "wait" /\ procs'[pid].wpc # "wait")
            => (procs'[pid].wpc = "sleep"
                  <=> RestartDecision(procs[pid].restart, procs[pid].code,
                                      mapCommand[procs[pid].svc]))]_vars

\* C17: the shutdown step removes the socket file and changes neither a
\* managed process (no signal is sent) nor the registry; afterwards no
\* connection is accepted.
C17_ShutdownLeavesChildren ==
    [][/\ (daemon = "running" /\ daemon' = "shutdown")
            => /\ socketFile /\ ~socketFile'
               /\ procs' = procs
               /\ mapCommand' = mapCommand
       /\ daemon = "shutdown" => UNCHANGED <<conns, procs, mapCommand>>]_vars

C17_Witness ==
    /\ daemon = "shutdown"
    /\ ~socketFile
    /\ \E pid \in Pids :
          procs[pid].st = "alive" /\ procs[pid].sig = "none" /\ Registered(pid)
\* C18: in every reachable state at most one child launched by the daemon is
\* alive per service name.
C18_OneLiveChildPerName ==
    \A p, q \in Pids :
        (procs[p].svc = procs[q].svc /\ procs[p].st = "alive"
            /\ procs[q].st = "alive") => p = q
\* C19: a start command for a running service replaces its process once: the
\* watcher of the process a client start is replacing does not go on to the
\* restart (which would call Start again and terminate the new process).
C19_ReplacedOnce ==
    [][\A pid \in Pids :
          (cur.op = "start" /\ cur.ckind = "conn" /\ cur.pid = pid
              /\ procs[pid].wpc = "wait" /\ procs'[pid].wpc # "wait")
            => procs'[pid].wpc = "done"]_vars

\* What the scheduling guarantees: a runnable goroutine (the walk, a
\* connection handler, a waiting Start or Stop, a watcher, the reaper)
\* eventually runs, the timers of Stop and of the watcher fire, and a child
\* with SIGKILL pending dies.  A child is not bound to exit on its own or on
\* SIGTERM, and clients are not bound to connect.
Fairness ==
    /\ WF_vars(BootStart)
    /\ WF_vars(Listen)
    /\ WF_vars(\E c \in conns : handleConnection(c))
    /\ WF_vars(StartWaitDone)
    /\ WF_vars(StopDone)
    /\ WF_vars(StopTimeout)
    /\ WF_vars(\E pid \in Pids : WatcherExit(pid))
    /\ WF_vars(\E pid \in Pids : WatcherRestart(pid))
    /\ WF_vars(\E pid \in Pids : reapZombies(pid))
    /\ WF_vars(\E pid \in Pids : procs[pid].sig = "kill" /\ ChildExit(pid))

FairSpec == Spec /\ Fairness

\* C20: every control operation that took the supervision lock eventually
\* releases it (as long as the daemon runs), also when the child ignores the
\* graceful termination signal.
C20_LockEventuallyReleased ==
    (cur # Idle) ~> (cur = Idle \/ ~Alive)
====
